---- MODULE Spec2Model ----
(***************************************************************************)
(* Connor (connor/connor.py): deduplication of paired reads by coordinate  *)
(* and inline barcode.  main() traverses the input twice: the first pass   *)
(* builds the coordinate -> read-name manifest, the second pass pairs the  *)
(* reads by name, collects the pairs by coordinate and yields a coordinate *)
(* family when the manifest owes it no more names; every yielded family is *)
(* ranked by tag, partitioned into tag families and one pair of each tag   *)
(* family is written.                                                      *)
(*                                                                         *)
(* An aligned segment is identified by its index in the input (pysam       *)
(* segments are distinct objects); a PairedAlignment is the tuple          *)
(* <<left index, right index>>.  A query_sequence is a tuple of character  *)
(* codes, so that Python's string order is the order of the codes.         *)
(***************************************************************************)
EXTENDS Integers, Sequences, FiniteSets, TLC

VARIABLES input, pc, outcome, i1, manifest, i2, pairing_dict, family_dict,
          yielded, coord_family, ranked_tags, tag_families, written

vars == <<input, pc, outcome, i1, manifest, i2, pairing_dict, family_dict,
          yielded, coord_family, ranked_tags, tag_families, written>>

(* ------------------------------ bounds --------------------------------- *)
\* longest input of the unrestricted specification
MaxReads == 4
\* most pairs of a well-formed input
MaxPairs == 2
\* pairs of the single coordinate family of the tag specification
FamilySize == 4

Names == {"a", "b"}
Chroms == {"chr1", "chr2"}
Positions == {100, 200}
\* "AAAG", "ATTG", "CCCT", "GG" as character codes
LeftSeqs == {<<65, 65, 65, 71>>, <<65, 84, 84, 71>>}
RightSeqs == {<<67, 67, 67, 84>>, <<71, 71>>}
PlainSeq == <<65, 65, 65, 71>>

(* --------------------------- dict helpers ------------------------------ *)
EmptyDict == [x \in {} |-> {}]

DictPut(d, k, v) == [x \in (DOMAIN d) \cup {k} |-> IF x = k THEN v ELSE d[x]]

DictDel(d, k) == [x \in (DOMAIN d) \ {k} |-> d[x]]

\* d[k] of a defaultdict(set): a missing key is created with the empty set
DefaultGet(d, k) == IF k \in DOMAIN d THEN d ELSE DictPut(d, k, {})

(* ------------------------ LightweightAlignment ------------------------- *)
\* the key without the ordering of the two starts
KeyOfUnordered(aseg) == <<aseg.chrom, aseg.pos, aseg.mpos>>

\* the key with the larger start first
KeyOfReversed(aseg) ==
    IF aseg.pos > aseg.mpos
    THEN <<aseg.chrom, aseg.pos, aseg.mpos>>
    ELSE <<aseg.chrom, aseg.mpos, aseg.pos>>

KeyOf(aseg) ==
    IF aseg.pos < aseg.mpos
    THEN <<aseg.chrom, aseg.pos, aseg.mpos>>
    ELSE <<aseg.chrom, aseg.mpos, aseg.pos>>

(* ---------------- _build_coordinate_read_name_manifest ----------------- *)
ManifestAdd(af_dict, aseg) ==
    LET d == DefaultGet(af_dict, KeyOf(aseg))
    IN  DictPut(d, KeyOf(aseg), d[KeyOf(aseg)] \cup {aseg.name})

RECURSIVE BuildManifest(_)
BuildManifest(segs) ==
    IF segs = <<>> THEN EmptyDict
    ELSE ManifestAdd(BuildManifest(SubSeq(segs, 1, Len(segs) - 1)),
                     segs[Len(segs)])

(* ------------------------------- inputs -------------------------------- *)
Segments(names, chroms, lseqs) ==
    [name : names, chrom : chroms, pos : Positions, mpos : Positions,
     seq : lseqs]

\* any read: any name and chromosome, its start and its mate's start differing
AnyReads == {r \in Segments(Names, Chroms, {PlainSeq}) : r.pos # r.mpos}

InitWith(inp) ==
    /\ input = inp
    /\ pc = "pass1"
    /\ outcome = "running"
    /\ i1 = 0
    /\ manifest = EmptyDict
    /\ i2 = 0
    /\ pairing_dict = EmptyDict
    /\ family_dict = EmptyDict
    /\ yielded = <<>>
    /\ coord_family = {}
    /\ ranked_tags = <<>>
    /\ tag_families = <<>>
    /\ written = <<>>

Init == \E n \in 0..MaxReads : \E inp \in [1..n -> AnyReads] : InitWith(inp)

\* Well-formed inputs: every name occurs exactly twice, the two mates report
\* the same chromosome and each other's start.  slots[k] is the pair read k
\* belongs to; desc[p] gives pair p its chromosome and its two starts.
Arrangements(n) ==
    {slots \in [1..(2 * n) -> 1..n] :
        \A p \in 1..n : Cardinality({k \in 1..(2 * n) : slots[k] = p}) = 2}

PairName(p) == <<"read", p>>

IsFirst(slots, k) == \A j \in 1..(k - 1) : slots[j] # slots[k]

WFInput(slots, desc) ==
    [k \in DOMAIN slots |->
        LET d == desc[slots[k]]
        IN  IF IsFirst(slots, k)
            THEN [name |-> PairName(slots[k]), chrom |-> d.chrom,
                  pos |-> d.posA, mpos |-> d.posB, seq |-> d.seqL]
            ELSE [name |-> PairName(slots[k]), chrom |-> d.chrom,
                  pos |-> d.posB, mpos |-> d.posA, seq |-> d.seqR]]

WFDesc == {d \in [chrom : Chroms, posA : Positions, posB : Positions,
                    seqL : {PlainSeq}, seqR : {PlainSeq}] :
              ~(d.posA = 200 /\ d.posB = 200)}

InitWF ==
    \E n \in 0..MaxPairs :
        \E slots \in Arrangements(n) :
            \E desc \in [1..n -> WFDesc] : InitWith(WFInput(slots, desc))

\* Inputs well-formed apart from one orphan: n pairs as above and one read
\* whose name occurs once, anywhere among them.
OrphanArrangements(n) ==
    {slots \in [1..(2 * n + 1) -> 1..(n + 1)] :
        /\ \A p \in 1..n :
              Cardinality({k \in 1..(2 * n + 1) : slots[k] = p}) = 2
        /\ Cardinality({k \in 1..(2 * n + 1) : slots[k] = n + 1}) = 1}

OrphanDesc == {d \in WFDesc : d.posA # d.posB /\ (d.chrom = "chr1" \/ d.posA = 100)}

InitOrphan ==
    \E n \in 0..MaxPairs :
        \E slots \in OrphanArrangements(n) :
            \E desc \in [1..(n + 1) -> OrphanDesc] :
                InitWith(WFInput(slots, desc))

\* One coordinate family: FamilySize pairs at chr1:100/200, the lefts first
\* and then the rights, each pair with any left and any right sequence.
FamilyDesc == [chrom : {"chr1"}, posA : {100}, posB : {200},
               seqL : LeftSeqs, seqR : RightSeqs]

FamilySlots == [k \in 1..(2 * FamilySize) |->
                   IF k <= FamilySize THEN k ELSE k - FamilySize]

InitFamily ==
    \E desc \in [1..FamilySize -> FamilyDesc] :
        InitWith(WFInput(FamilySlots, desc))

(* ------------------------------ _rank_tags ---------------------------- *)
Min(a, b) == IF a < b THEN a ELSE b

\* query_sequence[0:3]
TagId(query_sequence) == SubSeq(query_sequence, 1, Min(3, Len(query_sequence)))

\* (left_tag_id, right_tag_id) of a PairedAlignment
TagOf(paired_align) ==
    <<TagId(input[paired_align[1]].seq), TagId(input[paired_align[2]].seq)>>

\* Python's order of two strings
RECURSIVE StrLess(_, _)
StrLess(s, t) ==
    IF t = <<>> THEN FALSE
    ELSE IF s = <<>> THEN TRUE
    ELSE IF s[1] # t[1] THEN s[1] < t[1]
    ELSE StrLess(Tail(s), Tail(t))

\* Python's order of two (left, right) tuples
TagLess(a, b) == StrLess(a[1], b[1]) \/ (a[1] = b[1] /\ StrLess(a[2], b[2]))

\* the orders in which a set may be iterated
Orders(S) == {o \in [1..Cardinality(S) -> S] :
                 \A j, k \in 1..Cardinality(S) : j # k => o[j] # o[k]}

\* lines 108-112: tag_count as its items <<tag, count>>, in insertion order
RECURSIVE TagCount(_)
TagCount(aligns) ==
    IF aligns = <<>> THEN <<>>
    ELSE LET prev == TagCount(SubSeq(aligns, 1, Len(aligns) - 1))
             tag == TagOf(aligns[Len(aligns)])
         IN  IF \E k \in 1..Len(prev) : prev[k][1] = tag
             THEN [k \in 1..Len(prev) |->
                     IF prev[k][1] = tag THEN <<tag, prev[k][2] + 1>>
                     ELSE prev[k]]
             ELSE Append(prev, <<tag, 1>>)

\* the key with the count ascending
SortKeyLessAscending(x, y) ==
    \/ x[2] < y[2]
    \/ (x[2] = y[2] /\ TagLess(x[1], y[1]))

\* the key without the tag
SortKeyLessCountOnly(x, y) == -1 * x[2] < -1 * y[2]

\* line 114: key=lambda x: (-1 * x[1], x[0]), compared as tuples
SortKeyLess(x, y) ==
    \/ -1 * x[2] < -1 * y[2]
    \/ (-1 * x[2] = -1 * y[2] /\ TagLess(x[1], y[1]))

\* sorted() is stable: an item goes before the first item of a greater key
InsertSorted(sorted, x) ==
    LET before == {k \in 1..Len(sorted) :
                      \A j \in 1..k : ~SortKeyLess(x, sorted[j])}
        n == Cardinality(before)
    IN  SubSeq(sorted, 1, n) \o <<x>> \o SubSeq(sorted, n + 1, Len(sorted))

RECURSIVE Sorted(_)
Sorted(items) ==
    IF items = <<>> THEN <<>>
    ELSE InsertSorted(Sorted(SubSeq(items, 1, Len(items) - 1)),
                      items[Len(items)])

\* the ranking cut down to its most popular tag
RankTagsTopOnly(aligns) ==
    LET tags_by_count == Sorted(TagCount(aligns))
    IN  [k \in 1..Min(1, Len(tags_by_count)) |-> tags_by_count[k][1]]

RankTags(aligns) ==
    LET tags_by_count == Sorted(TagCount(aligns))
    IN  [k \in 1..Len(tags_by_count) |-> tags_by_count[k][1]]

(* -------------------------- _build_tag_families ------------------------ *)
\* the match requiring both prefixes
TagMatchesBoth(paired_align, best_tag) ==
    /\ TagOf(paired_align)[1] = best_tag[1]
    /\ TagOf(paired_align)[2] = best_tag[2]

\* the match on the left prefix alone
TagMatchesLeftOnly(paired_align, best_tag) ==
    TagOf(paired_align)[1] = best_tag[1]

\* line 101
TagMatches(paired_align, best_tag) ==
    \/ TagOf(paired_align)[1] = best_tag[1]
    \/ TagOf(paired_align)[2] = best_tag[2]

\* lines 96-103: tag_aligns as its items <<tag, set>>, in insertion order
RECURSIVE TagAligns(_, _)
TagAligns(aligns, ranked) ==
    IF aligns = <<>> THEN <<>>
    ELSE LET prev == TagAligns(SubSeq(aligns, 1, Len(aligns) - 1), ranked)
             paired_align == aligns[Len(aligns)]
             hits == {k \in 1..Len(ranked) : TagMatches(paired_align, ranked[k])}
         IN  IF hits = {} THEN prev
             ELSE LET best_tag == ranked[CHOOSE k \in hits :
                                            \A j \in hits : k <= j]
                  IN  IF \E k \in 1..Len(prev) : prev[k][1] = best_tag
                      THEN [k \in 1..Len(prev) |->
                              IF prev[k][1] = best_tag
                              THEN <<best_tag, prev[k][2] \cup {paired_align}>>
                              ELSE prev[k]]
                      ELSE Append(prev, <<best_tag, {paired_align}>>)

\* line 104: tag_aligns.values()
BuildTagFamilies(aligns, ranked) ==
    LET items == TagAligns(aligns, ranked)
    IN  [k \in 1..Len(items) |-> items[k][2]]

(* -------------------------------- main --------------------------------- *)
\* lines 121-122: one read of the first traversal enters the manifest
Pass1Step ==
    /\ pc = "pass1"
    /\ i1 < Len(input)
    /\ i1' = i1 + 1
    /\ manifest' = ManifestAdd(manifest, input[i1 + 1])
    /\ UNCHANGED <<input, pc, outcome, i2, pairing_dict, family_dict, yielded,
                   coord_family, ranked_tags, tag_families, written>>

\* the second traversal opened while the first is under way
OpenPass2Early ==
    /\ pc = "pass1"
    /\ i1 <= Len(input)
    /\ pc' = "pass2"
    /\ UNCHANGED <<input, outcome, i1, manifest, i2, pairing_dict, family_dict,
                   yielded, coord_family, ranked_tags, tag_families, written>>

\* lines 123-126: the first traversal is exhausted, the second one is opened
OpenPass2 ==
    /\ pc = "pass1"
    /\ i1 = Len(input)
    /\ pc' = "pass2"
    /\ UNCHANGED <<input, outcome, i1, manifest, i2, pairing_dict, family_dict,
                   yielded, coord_family, ranked_tags, tag_families, written>>

\* the pair added with its two alignments exchanged
FamilyAddSwapped(fam, key, paired_align) ==
    LET d == DefaultGet(fam, key)
    IN  DictPut(d, key, d[key] \cup {<<paired_align[2], paired_align[1]>>})

\* line 81: family_dict[key].add(paired_align)
FamilyAdd(fam, key, paired_align) ==
    LET d == DefaultGet(fam, key)
    IN  DictPut(d, key, d[key] \cup {paired_align})

\* the name set cleared instead of the one name removed
ManifestRemoveAll(man, key, name) == DictPut(man, key, {})

\* line 82: coord_read_name_manifest[key].remove(name), the name being there
ManifestRemoveDeleting(man, key, name) ==
    IF man[key] \ {name} = {} THEN DictDel(man, key)
    ELSE DictPut(man, key, man[key] \ {name})

ManifestRemove(man, key, name) == DictPut(man, key, man[key] \ {name})

\* the test without its negation
ReleasedInverted(man, key) == DefaultGet(man, key)[key] # {}

\* line 83: not coord_read_name_manifest[key]
ReleasedAlways(man, key) == TRUE

Released(man, key) == DefaultGet(man, key)[key] = {}

\* line 84: what family_dict.pop(key) leaves
FamilyPopKeeping(fam, key) == fam

FamilyPop(fam, key) == DictDel(fam, key)

\* lines 74-84: the generator consumes one read of the second traversal
Pass2Step ==
    /\ pc = "pass2"
    /\ i2 < Len(input)
    /\ i2' = i2 + 1
    /\ LET aseg == input[i2 + 1]
       IN  IF aseg.name \notin DOMAIN pairing_dict
           THEN /\ pairing_dict' = DictPut(pairing_dict, aseg.name, i2 + 1)
                /\ UNCHANGED <<pc, outcome, manifest, family_dict, yielded,
                               coord_family>>
           ELSE LET paired_align == <<pairing_dict[aseg.name], i2 + 1>>
                    key == KeyOf(aseg)
                    fam == FamilyAdd(family_dict, key, paired_align)
                    man == DefaultGet(manifest, key)
                IN  /\ pairing_dict' = DictDel(pairing_dict, aseg.name)
                    /\ IF aseg.name \notin man[key]
                       THEN \* set.remove raises KeyError
                            /\ manifest' = man
                            /\ family_dict' = fam
                            /\ outcome' = "KeyError"
                            /\ pc' = "done"
                            /\ UNCHANGED <<yielded, coord_family>>
                       ELSE /\ manifest' = ManifestRemove(man, key, aseg.name)
                            /\ IF Released(manifest', key)
                               THEN /\ family_dict' = FamilyPop(fam, key)
                                    /\ coord_family' = fam[key]
                                    /\ yielded' = Append(yielded,
                                          [key |-> key, group |-> fam[key]])
                                    /\ pc' = "rank"
                                    /\ UNCHANGED outcome
                               ELSE /\ family_dict' = fam
                                    /\ UNCHANGED <<pc, outcome, yielded,
                                                   coord_family>>
    /\ UNCHANGED <<input, i1, ranked_tags, tag_families, written>>

\* lines 133-134: the generator is exhausted, the files are closed
Finish ==
    /\ pc = "pass2"
    /\ i2 = Len(input)
    /\ pc' = "done"
    /\ outcome' = "ok"
    /\ UNCHANGED <<input, i1, manifest, i2, pairing_dict, family_dict, yielded,
                   coord_family, ranked_tags, tag_families, written>>

\* line 128: the yielded family is ranked, iterating the set in some order
RankStep ==
    /\ pc = "rank"
    /\ \E aligns \in Orders(coord_family) : ranked_tags' = RankTags(aligns)
    /\ pc' = "partition"
    /\ UNCHANGED <<input, outcome, i1, manifest, i2, pairing_dict, family_dict,
                   yielded, coord_family, tag_families, written>>

\* line 129: the family is partitioned, iterating the set in some order
PartitionStep ==
    /\ pc = "partition"
    /\ \E aligns \in Orders(coord_family) :
          tag_families' = BuildTagFamilies(aligns, ranked_tags)
    /\ pc' = IF tag_families' = <<>> THEN "pass2" ELSE "write"
    /\ UNCHANGED <<input, outcome, i1, manifest, i2, pairing_dict, family_dict,
                   yielded, coord_family, ranked_tags, written>>

\* the write of the left alignment twice
WriteStepLeftTwice ==
    /\ pc = "write"
    /\ \E read_pair \in Head(tag_families) :
          written' = written \o <<read_pair[1], read_pair[1]>>
    /\ tag_families' = Tail(tag_families)
    /\ pc' = IF tag_families' = <<>> THEN "pass2" ELSE "write"
    /\ UNCHANGED <<input, outcome, i1, manifest, i2, pairing_dict, family_dict,
                   yielded, coord_family, ranked_tags>>

\* lines 86-88, 130-132: some pair of the next tag family is written
WriteStep ==
    /\ pc = "write"
    /\ \E read_pair \in Head(tag_families) :
          written' = written \o <<read_pair[1], read_pair[2]>>
    /\ tag_families' = Tail(tag_families)
    /\ pc' = IF tag_families' = <<>> THEN "pass2" ELSE "write"
    /\ UNCHANGED <<input, outcome, i1, manifest, i2, pairing_dict, family_dict,
                   yielded, coord_family, ranked_tags>>

Next ==
    \/ Pass1Step
    \/ OpenPass2
    \/ Pass2Step
    \/ RankStep
    \/ PartitionStep
    \/ WriteStep
    \/ Finish

Spec == Init /\ [][Next]_vars

SpecWF == InitWF /\ [][Next]_vars

SpecFamily == InitFamily /\ [][Next]_vars
(* ------------------------------ properties ---------------------------- *)
SpecOrphan == InitOrphan /\ [][Next]_vars

YieldedKeys == {yielded[k].key : k \in DOMAIN yielded}

YieldsOf(key) == {k \in DOMAIN yielded : yielded[k].key = key}

\* every PairedAlignment the second pass has built and still holds or yielded
OpenPairs == UNION {family_dict[k] : k \in DOMAIN family_dict}

YieldedPairs == UNION {yielded[k].group : k \in DOMAIN yielded}

RECURSIVE ReadsIn(_)
ReadsIn(groups) ==
    IF groups = <<>> THEN 0
    ELSE 2 * Cardinality(groups[1].group) + ReadsIn(Tail(groups))

\* names occurring once in the input
Orphans == {k \in DOMAIN input :
               \A j \in DOMAIN input : j # k => input[j].name # input[k].name}

\* the ranking and the coordinate family in the state belong together
Ranked == yielded # <<>> /\ pc # "rank"

\* C1: a key is yielded at most once, and once yielded it is never again a
\* key of the in-progress family map (no pair is inserted under it, no second
\* group is opened for it), whatever the input.
C1_NoReopen ==
    /\ \A j, k \in DOMAIN yielded : j # k => yielded[j].key # yielded[k].key
    /\ \A key \in YieldedKeys : key \notin DOMAIN family_dict

\* C2: for well-formed input, when the run is over the emitted groups hold
\* as many reads as the input, and every input read is in exactly one pair
\* of exactly one emitted group.
C2_AllReadsConsumedOnce ==
    pc = "done" =>
        /\ outcome = "ok"
        /\ ReadsIn(yielded) = Len(input)
        /\ \A i \in DOMAIN input :
              Cardinality({kp \in {<<k, p>> : k \in DOMAIN yielded,
                                              p \in YieldedPairs} :
                              /\ kp[2] \in yielded[kp[1]].group
                              /\ i \in {kp[2][1], kp[2][2]}}) = 1
        /\ \A p \in YieldedPairs : p[1] # p[2]

C2_Witness ==
    /\ pc = "done"
    /\ Len(input) = 4
    /\ Len(yielded) = 2
    /\ KeyOf(input[1]) # KeyOf(input[2])

\* C3: with an orphan read name in the input the run ends with
\* UnmatchedMateError, and no group is emitted for the orphan's key.
C3_OrphanRaises ==
    (pc = "done" /\ Orphans # {}) =>
        /\ outcome = "UnmatchedMateError"
        /\ \A o \in Orphans : KeyOf(input[o]) \notin YieldedKeys

\* the family of the example: (AAA,CCC) three times, (ATT,CCC) once
ExampleFamily ==
    /\ Cardinality(coord_family) = 4
    /\ Cardinality({p \in coord_family :
                       TagOf(p) = <<(<<65, 65, 65>>), (<<67, 67, 67>>)>>}) = 3
    /\ Cardinality({p \in coord_family :
                       TagOf(p) = <<(<<65, 84, 84>>), (<<67, 67, 67>>)>>}) = 1

ExampleRanking ==
    << <<(<<65, 65, 65>>), (<<67, 67, 67>>)>>,
       <<(<<65, 84, 84>>), (<<67, 67, 67>>)>> >>

\* the tag families as _build_tag_families returned them: nothing written yet
Partitioned == pc = "write" /\ written = <<>>

\* C4 as stated: the example family is ranked [(AAA,CCC), (ATT,CCC)], is
\* partitioned into two clusters of sizes 3 and 1, and 2 pairs are written.
C4_ExampleTwoClusters ==
    (Ranked /\ ExampleFamily) =>
        /\ ranked_tags = ExampleRanking
        /\ Partitioned =>
              /\ Len(tag_families) = 2
              /\ {Cardinality(tag_families[k]) : k \in 1..2} = {3, 1}
        /\ pc = "done" => Len(written) = 2 * 2

\* C4 amended: the example family is ranked [(AAA,CCC), (ATT,CCC)], is
\* partitioned into one cluster of all 4 pairs ((ATT,CCC) matches the first
\* tag on its right prefix), and 1 pair is written.
C4_ExampleOneCluster ==
    (Ranked /\ ExampleFamily) =>
        /\ ranked_tags = ExampleRanking
        /\ Partitioned =>
              /\ Len(tag_families) = 1
              /\ tag_families[1] = coord_family
        /\ pc = "done" => Len(written) = 2 * 1

C4_Witness ==
    /\ pc = "done"
    /\ ExampleFamily
    /\ ranked_tags = ExampleRanking
    /\ Len(written) = 2

\* two reads of one name, each reporting the other's start as its mate's
Reciprocal(p) ==
    /\ input[p[1]].name = input[p[2]].name
    /\ input[p[1]].mpos = input[p[2]].pos
    /\ input[p[2]].mpos = input[p[1]].pos

\* C5: the two mates of every pair the second pass builds have the same key,
\* whatever their chromosomes and starts.
C5_MateKeysAgree ==
    \A p \in OpenPairs \cup YieldedPairs :
        Reciprocal(p) => KeyOf(input[p[1]]) = KeyOf(input[p[2]])

\* C6 as stated: the manifest never maps a key to the empty set.
C6_NoEmptyEntry == \A key \in DOMAIN manifest : manifest[key] # {}

\* C6 amended: no manifest entry is ever deleted; an entry whose name set
\* becomes empty stays, mapped to the empty set, and its group is yielded in
\* that step: the keys mapped to the empty set are the keys already yielded.
C6_EmptyEntryIsYielded ==
    /\ pc # "pass1" => DOMAIN manifest = DOMAIN BuildManifest(input)
    /\ \A key \in DOMAIN manifest : manifest[key] = {} <=> key \in YieldedKeys
    /\ YieldedKeys \subseteq DOMAIN manifest

C6_Witness ==
    /\ yielded # <<>>
    /\ \E key \in DOMAIN manifest : manifest[key] = {}
    /\ \E key \in DOMAIN manifest : manifest[key] # {}

\* C7: for well-formed input the group yielded for a key holds one pair for
\* every name the first pass recorded under the key and nothing else: every
\* pair has that key, and every read of that key is in one of the pairs.
C7_GroupIsManifestEntry ==
    \A k \in DOMAIN yielded :
        LET key == yielded[k].key
            group == yielded[k].group
        IN  /\ {input[p[1]].name : p \in group} = BuildManifest(input)[key]
            /\ Cardinality(group) = Cardinality(BuildManifest(input)[key])
            /\ \A p \in group :
                  /\ input[p[1]].name = input[p[2]].name
                  /\ KeyOf(input[p[1]]) = key
                  /\ KeyOf(input[p[2]]) = key
            /\ \A i \in DOMAIN input :
                  KeyOf(input[i]) = key =>
                      \E p \in group : i \in {p[1], p[2]}

C7_Witness ==
    \E k \in DOMAIN yielded :
        /\ Cardinality(yielded[k].group) = 2
        /\ Cardinality(BuildManifest(input)[yielded[k].key]) = 2

\* C8: for well-formed input, at the end of the second pass every key the
\* first pass recorded has been yielded exactly once and the open-pairing
\* map and the in-progress family map are empty.
C8_AllKeysYielded ==
    pc = "done" =>
        /\ outcome = "ok"
        /\ \A key \in DOMAIN BuildManifest(input) :
              Cardinality(YieldsOf(key)) = 1
        /\ pairing_dict = EmptyDict
        /\ family_dict = EmptyDict

C8_Witness ==
    /\ pc = "done"
    /\ Cardinality(DOMAIN BuildManifest(input)) = 2
    /\ Len(yielded) = 2
    /\ pairing_dict = EmptyDict

CountOf(tag) == Cardinality({p \in coord_family : TagOf(p) = tag})

\* C9: the ranking holds every distinct tag of the family exactly once, in
\* non-increasing order of count, tags of equal count in ascending order.
C9_RankingSorted ==
    Ranked =>
        /\ {ranked_tags[k] : k \in DOMAIN ranked_tags}
               = {TagOf(p) : p \in coord_family}
        /\ \A j, k \in DOMAIN ranked_tags :
              j < k =>
                /\ ranked_tags[j] # ranked_tags[k]
                /\ CountOf(ranked_tags[j]) >= CountOf(ranked_tags[k])
                /\ CountOf(ranked_tags[j]) = CountOf(ranked_tags[k])
                      => TagLess(ranked_tags[j], ranked_tags[k])

C9_Witness ==
    /\ Ranked
    /\ Len(ranked_tags) = 3
    /\ CountOf(ranked_tags[1]) = 2
    /\ CountOf(ranked_tags[2]) = 1
    /\ CountOf(ranked_tags[3]) = 1

\* C10: whatever the order in which the family is iterated, _rank_tags
\* returns the ranking main has just got from it.
C10_RankingOrderIndependent ==
    pc = "partition" =>
        \A aligns \in Orders(coord_family) : RankTags(aligns) = ranked_tags

C10_Witness ==
    /\ pc = "partition"
    /\ Len(ranked_tags) >= 2
    /\ CountOf(ranked_tags[1]) = CountOf(ranked_tags[2])
    /\ \E a, b \in Orders(coord_family) : TagCount(a) # TagCount(b)

\* the read with its own start and its mate's start exchanged
Swapped(aseg) == [aseg EXCEPT !.pos = aseg.mpos, !.mpos = aseg.pos]

\* C11: the key of every read the first pass has taken is the key of the
\* read with its two starts exchanged, also when the starts are equal, and
\* the second component of every recorded key is at most the third.
C11_KeySymmetric ==
    /\ \A i \in 1..i1 :
          /\ KeyOf(input[i]) = KeyOf(Swapped(input[i]))
          /\ KeyOf(input[i])[1] = input[i].chrom
          /\ KeyOf(input[i]) \in DOMAIN manifest
    /\ \A key \in DOMAIN manifest : key[2] <= key[3]

C11_Witness ==
    /\ \E i \in 1..i1 : input[i].pos = input[i].mpos
    /\ \E i \in 1..i1 : input[i].pos > input[i].mpos
    /\ \E i \in 1..i1 : input[i].pos < input[i].mpos

\* the ranks of the tags a pair matches on its left or on its right prefix
Hits(p) ==
    {k \in DOMAIN ranked_tags :
        \/ TagId(input[p[1]].seq) = ranked_tags[k][1]
        \/ TagId(input[p[2]].seq) = ranked_tags[k][2]}

BestRank(p) == CHOOSE k \in Hits(p) : \A j \in Hits(p) : k <= j

\* the pairs of the family whose highest-ranked matching tag is that of p
ClusterOf(p) ==
    {q \in coord_family : Hits(q) # {} /\ BestRank(q) = BestRank(p)}

ExpectedClusters == {ClusterOf(p) : p \in {q \in coord_family : Hits(q) # {}}}

\* the k-th pair written
WrittenPair(k) == <<written[2 * k - 1], written[2 * k]>>

WrittenPairs == 1..(Len(written) \div 2)

\* C12: of every cluster one pair is written, left read then right read:
\* the written pairs are members of distinct clusters of the family, the
\* reads written for the family are twice its clusters, and every written
\* read is an input read written once.
C12_OneRepresentativePerCluster ==
    /\ Len(written) % 2 = 0
    /\ \A k \in DOMAIN written : written[k] \in DOMAIN input
    /\ \A j, k \in DOMAIN written : j # k => written[j] # written[k]
    /\ \A k \in WrittenPairs : WrittenPair(k) \in coord_family
    /\ \A j, k \in WrittenPairs :
          j # k => ClusterOf(WrittenPair(j)) # ClusterOf(WrittenPair(k))
    /\ pc = "write" =>
          /\ Len(written) + 2 * Len(tag_families)
                = 2 * Cardinality(ExpectedClusters)
          /\ \A k \in WrittenPairs : \A c \in DOMAIN tag_families :
                WrittenPair(k) \notin tag_families[c]
    /\ (pc \in {"pass2", "done"} /\ yielded # <<>>) =>
          /\ Len(written) = 2 * Cardinality(ExpectedClusters)
          /\ {ClusterOf(WrittenPair(k)) : k \in WrittenPairs} = ExpectedClusters

C12_Witness ==
    /\ pc = "done"
    /\ Cardinality(ExpectedClusters) = 2
    /\ Len(written) = 4
    /\ \E c \in ExpectedClusters : Cardinality(c) = 3

\* the reads of the name of read j that precede it in the input
Earlier(j) == {e \in 1..(j - 1) : input[e].name = input[j].name}

\* the places a pair is held at: in-progress families and yielded groups
PlacesOf(p) ==
    {<<"family", key>> : key \in {k \in DOMAIN family_dict : p \in family_dict[k]}}
        \cup {<<"yielded", k>> : k \in {y \in DOMAIN yielded : p \in yielded[y].group}}

\* C13: the second pass pairs by name only.  A consumed read whose name was
\* seen before is the right member of exactly one pair, whose left member is
\* the earlier read of that name, whatever the barcodes of the two reads; the
\* pair is one entry of the family of the later read's key.  A consumed read
\* whose mate is not consumed yet is the stored read of its name.
C13_PairedByNameOnly ==
    /\ \A p \in OpenPairs \cup YieldedPairs :
          /\ input[p[1]].name = input[p[2]].name
          /\ p[1] < p[2]
          /\ p[2] <= i2
          /\ Cardinality(PlacesOf(p)) = 1
          /\ \A pl \in PlacesOf(p) :
                \/ pl[1] = "family" /\ pl[2] = KeyOf(input[p[2]])
                \/ pl[1] = "yielded" /\ yielded[pl[2]].key = KeyOf(input[p[2]])
    /\ \A j \in 1..i2 :
          IF Earlier(j) # {}
          THEN \E e \in Earlier(j) :
                  {p \in OpenPairs \cup YieldedPairs : j \in {p[1], p[2]}}
                      = {<<e, j>>}
          ELSE \/ (input[j].name \in DOMAIN pairing_dict
                       /\ pairing_dict[input[j].name] = j)
               \/ \E k \in (j + 1)..i2 : input[k].name = input[j].name

C13_Witness ==
    /\ pc = "done"
    /\ \E p \in YieldedPairs :
          /\ TagId(input[p[1]].seq) # TagId(input[p[2]].seq)
          /\ KeyOf(input[p[1]]) = KeyOf(input[p[2]])
    /\ Cardinality(YieldedPairs) = Len(input) \div 2
    /\ Cardinality(YieldedPairs) >= 2

ReadsOfKey(key) == {i \in DOMAIN input : KeyOf(input[i]) = key}

InputKeys == {KeyOf(input[i]) : i \in DOMAIN input}

\* C14: for well-formed input the group of a key is yielded by the step that
\* consumes the last read of the key: no group is yielded while a read of its
\* key is unread, a key all of whose reads are consumed has been yielded, and
\* the in-progress family map holds only keys not yielded whose manifest
\* name set is not empty.
C14_PromptRelease ==
    /\ \A y \in DOMAIN yielded :
          \A i \in ReadsOfKey(yielded[y].key) : i <= i2
    /\ \A key \in InputKeys :
          (\A i \in ReadsOfKey(key) : i <= i2) => key \in YieldedKeys
    /\ \A key \in DOMAIN family_dict :
          /\ key \notin YieldedKeys
          /\ key \in DOMAIN manifest
          /\ manifest[key] # {}

C14_Witness ==
    /\ pc = "rank"
    /\ Len(yielded) = 1
    /\ i2 = 3
    /\ Len(input) = 4
    /\ pairing_dict # EmptyDict
    /\ KeyOf(input[i2]) = yielded[1].key
    /\ KeyOf(input[4]) # yielded[1].key

\* C15: _build_tag_families puts every pair into the cluster of the
\* highest-ranked tag it matches on its left or on its right prefix: the
\* clusters returned are the sets of pairs of equal best rank, each once.
C15_FirstFitOrMatch ==
    Partitioned =>
        /\ {tag_families[k] : k \in DOMAIN tag_families} = ExpectedClusters
        /\ Len(tag_families) = Cardinality(ExpectedClusters)
        /\ \A p \in coord_family : \A k \in DOMAIN tag_families :
              p \in tag_families[k] =>
                  /\ Hits(p) # {}
                  /\ tag_families[k] = ClusterOf(p)
                  /\ \A q \in tag_families[k] : BestRank(q) = BestRank(p)

C15_Witness ==
    /\ Partitioned
    /\ Len(tag_families) = 2
    /\ \E p \in coord_family :
          /\ BestRank(p) = 1
          /\ TagOf(p) # ranked_tags[1]
          /\ TagOf(p)[1] # ranked_tags[1][1]
          /\ \E k \in DOMAIN ranked_tags : k > 1 /\ ranked_tags[k] = TagOf(p)

\* C16: the first pass is over before the second pass consumes a read: while
\* the first pass runs nothing is consumed, paired or yielded, and when the
\* second pass starts the manifest holds the name of every input read under
\* the read's key and nothing else.
C16_Pass1BeforePass2 ==
    /\ pc = "pass1" =>
          /\ i2 = 0
          /\ yielded = <<>>
          /\ pairing_dict = EmptyDict
          /\ family_dict = EmptyDict
    /\ (pc # "pass1" \/ i2 > 0 \/ yielded # <<>>) => i1 = Len(input)
    /\ (pc = "pass2" /\ i2 = 0) =>
          /\ DOMAIN manifest = InputKeys
          /\ \A key \in InputKeys :
                manifest[key] = {input[i].name : i \in ReadsOfKey(key)}

C16_Witness ==
    /\ pc = "pass2"
    /\ i2 = 0
    /\ Len(input) = 4
    /\ Cardinality(DOMAIN manifest) = 2
    /\ \E key \in DOMAIN manifest : Cardinality(manifest[key]) = 2

\* C17: with the ranking of the same family, the clusters returned are a
\* partition of the family: none is empty, no two share a pair, every pair of
\* the family is in one, and they are at most as many as the distinct tags.
C17_ClustersPartitionFamily ==
    Partitioned =>
        /\ \A k \in DOMAIN tag_families : tag_families[k] # {}
        /\ \A j, k \in DOMAIN tag_families :
              j # k => tag_families[j] \cap tag_families[k] = {}
        /\ UNION {tag_families[k] : k \in DOMAIN tag_families} = coord_family
        /\ Len(tag_families)
              <= Cardinality({TagOf(p) : p \in coord_family})

C17_Witness ==
    /\ Partitioned
    /\ Len(tag_families) = 2
    /\ Cardinality({TagOf(p) : p \in coord_family}) = 3
    /\ Cardinality(coord_family) = 4

OrphanKeys == {KeyOf(input[o]) : o \in Orphans}

\* the pairs of mates of the input whose key is the given one
MatePairs(key) ==
    {p \in (DOMAIN input) \X (DOMAIN input) :
        /\ p[1] < p[2]
        /\ input[p[1]].name = input[p[2]].name
        /\ KeyOf(input[p[2]]) = key}

\* C18: for an input well-formed apart from orphan reads, no group is ever
\* yielded for an orphan's key, and at the end of the run every other key
\* has been yielded once with all of its pairs, while the completed pairs of
\* an orphan's key are still in the in-progress family map.
C18_OrphanConfined ==
    /\ \A key \in YieldedKeys : key \notin OrphanKeys
    /\ pc = "done" =>
          /\ outcome = "ok"
          /\ \A key \in InputKeys \ OrphanKeys :
                /\ Cardinality(YieldsOf(key)) = 1
                /\ \A y \in YieldsOf(key) : yielded[y].group = MatePairs(key)
          /\ DOMAIN family_dict = {key \in OrphanKeys : MatePairs(key) # {}}
          /\ \A key \in DOMAIN family_dict : family_dict[key] = MatePairs(key)

C18_Witness ==
    /\ pc = "done"
    /\ Len(input) = 5
    /\ Len(yielded) = 1
    /\ \E key \in OrphanKeys :
          key \in DOMAIN family_dict /\ Cardinality(family_dict[key]) = 1
====
